---- MODULE Spec2Model ----
(***************************************************************************)
(* URL registry of the URL-shortener demo (src/src/services/urlService.js) *)
(* as a state machine.  Strings the code inspects character by character   *)
(* are sequences of one-character strings (a shortcode is one; a URL is a  *)
(* string whose characters CharsOf gives); a JavaScript                    *)
(* Date is [kind |-> "Date", ms |-> n] and the ISO string JSON.stringify   *)
(* turns it into is [kind |-> "String", ms |-> n].  An optional value      *)
(* (null) is the empty sequence, a present one a one-element sequence.     *)
(* Time is in milliseconds since the first page load.  A method of the     *)
(* service is an operator from the state (and its inputs) to its outcome:  *)
(* the value it returns and the collections and storage key it leaves.     *)
(* Spec follows the registry; the rows of the submission form and the      *)
(* state of the logger are followed in specifications of their own         *)
(* (SpecForm, SpecLogger) and stay as constructed in the others.           *)
(***************************************************************************)
EXTENDS Integers, Sequences, FiniteSets, TLC

VARIABLES urls, clickData, shortcodeCounter, usedShortcodes, storage, now,
          referrer, steps, rows, logger

vars == <<urls, clickData, shortcodeCounter, usedShortcodes, storage, now,
          referrer, steps, rows, logger>>

mem == <<urls, clickData, usedShortcodes>>

\* the state outside the registry: the ids of the form's rows and the logger
ui == <<rows, logger>>

----------------------------------------------------------------------------
(* Bound of the model: the number of steps of a run that change the service, *)
(* its storage key or the clock                                             *)

MaxSteps == 4

----------------------------------------------------------------------------
(* Characters and strings *)

UpperChars == <<"A","B","C","D","E","F","G","H","I","J","K","L","M",
                "N","O","P","Q","R","S","T","U","V","W","X","Y","Z">>

LowerChars == <<"a","b","c","d","e","f","g","h","i","j","k","l","m",
                "n","o","p","q","r","s","t","u","v","w","x","y","z">>

DigitChars == <<"0","1","2","3","4","5","6","7","8","9">>

\* chars of generateShortcode: upper case, lower case, digits
chars == UpperChars \o LowerChars \o DigitChars

Range(f) == {f[i] : i \in DOMAIN f}

\* digits of Number.prototype.toString(36)
Base36Digits == DigitChars \o LowerChars

RECURSIVE ToStringRadix(_, _)
ToStringRadix(n, digits) ==
    IF n < Len(digits)
    THEN <<digits[n + 1]>>
    ELSE Append(ToStringRadix(n \div Len(digits), digits), digits[(n % Len(digits)) + 1])

StartsWith(s, prefix) ==
    /\ Len(s) >= Len(prefix)
    /\ SubSeq(s, 1, Len(prefix)) = prefix

HttpPrefix == <<"h","t","t","p",":","/","/">>

HttpsPrefix == <<"h","t","t","p","s",":","/","/">>

\* code points the URL parser rejects in the host of an http(s) URL
ForbiddenHostChars == {" ", "<", ">", "[", "]", "^", "|", "%", "\\"}

\* the part of an http(s) URL between the scheme's slashes and the path
RECURSIVE HostOf(_)
HostOf(rest) ==
    IF rest = <<>> \/ Head(rest) \in {"/", "?", "#"}
    THEN <<>>
    ELSE <<Head(rest)>> \o HostOf(Tail(rest))

RECURSIVE SkipSlashes(_)
SkipSlashes(rest) ==
    IF rest # <<>> /\ Head(rest) \in {"/", "\\"} THEN SkipSlashes(Tail(rest)) ELSE rest

\* new URL(url) for a string that starts with http:// or https://
UrlParses(url) ==
    LET afterScheme == IF StartsWith(url, HttpsPrefix)
                       THEN SubSeq(url, Len(HttpsPrefix) + 1, Len(url))
                       ELSE SubSeq(url, Len(HttpPrefix) + 1, Len(url))
        host == HostOf(SkipSlashes(afterScheme))
    IN  /\ host # <<>>
        /\ Range(host) \cap ForbiddenHostChars = {}

UrlA == "https://a"

UrlFtp == "ftp://a"

UrlBadHost == "http://a b"

\* the characters of the URL strings of the model
CharsOf(url) ==
    CASE url = UrlA -> <<"h","t","t","p","s",":","/","/","a">>
      [] url = UrlFtp -> <<"f","t","p",":","/","/","a">>
      [] url = UrlBadHost -> <<"h","t","t","p",":","/","/","a"," ","b">>

UrlInputs == {UrlA, UrlFtp, UrlBadHost}

\* what validateURL returns for each URL string of the model
ValidatedUrls ==
    [url \in UrlInputs |->
        LET cs == CharsOf(url)
            matchesPattern ==
                \/ StartsWith(cs, HttpPrefix) /\ Len(cs) > Len(HttpPrefix)
                \/ StartsWith(cs, HttpsPrefix) /\ Len(cs) > Len(HttpsPrefix)
        IN  IF ~matchesPattern THEN FALSE ELSE UrlParses(cs)]

validateURL(url) == ValidatedUrls[url]

\* the characters of the class [a-zA-Z0-9]
Alphanumeric == Range(chars)

\* validateShortcode with the pattern not anchored at its end
validateShortcode_Unanchored(shortcode) ==
    /\ Len(shortcode) >= 3
    /\ \A i \in 1..3 : shortcode[i] \in Alphanumeric

validateShortcode(shortcode) ==
    /\ Len(shortcode) >= 3
    /\ Len(shortcode) <= 20
    /\ \A i \in 1..Len(shortcode) : shortcode[i] \in Alphanumeric

----------------------------------------------------------------------------
(* Dates *)

MsPerMinute == 60 * 1000

Date(t) == [kind |-> "Date", ms |-> t]

\* Date.prototype.toJSON, applied by JSON.stringify
ToJSONDate(d) == [kind |-> "String", ms |-> d.ms]

\* `nowDate > x` of JavaScript: a Date operand becomes its time value, an ISO
\* string operand becomes NaN, and every comparison with NaN is false
DateGreater(nowDate, x) ==
    IF x.kind = "Date" THEN nowDate.ms > x.ms ELSE FALSE

----------------------------------------------------------------------------
(* Inputs *)

\* the i-th code the random draw can produce in the model
DrawCode(i) == <<"A","A","A","A","A",chars[i]>>

DrawCodes == {DrawCode(1), DrawCode(2)}

CustomAbc == <<"a","b","c">>

CustomShort == <<"a","b">>

NoShortcode == <<>>

CustomInputs == {NoShortcode, CustomAbc, CustomShort, DrawCode(1)}

\* a validityMinutes argument: the number num / den, with den > 0
Number(num, den) == <<num, den>>

NumberIsInteger(v) == v[1] % v[2] = 0

\* the value of an integer argument
IntegerValue(v) == v[1] \div v[2]

Minutes(n) == Number(n, 1)

\* the validityMinutes argument left out by the caller (undefined)
OmittedValidity == <<>>

\* the default of the parameter: `validityMinutes = 30`
DefaultValidityMinutes == 30

\* the value of the parameter validityMinutes, given the argument
ValidityOrDefault(v) ==
    IF v = OmittedValidity THEN Minutes(DefaultValidityMinutes) ELSE v

\* `!Number.isInteger(validityMinutes) || validityMinutes <= 0` is false
IsPositiveInteger(v) == NumberIsInteger(v) /\ v[1] > 0

ValidityInputs == {Minutes(0), Minutes(1), Number(3, 2), OmittedValidity}

Referrers == {"", "https://r"}

\* what the random loop of generateShortcode can do: the number of draws made
\* and the last code drawn
Draws == [attempts : {1, 2, 100}, last : DrawCodes]

\* no draw is made by a call that does not reach generateShortcode
NoDraw == [attempts |-> 0, last |-> <<>>]

----------------------------------------------------------------------------
(* Maps *)

EmptyMap == [k \in {} |-> {}]

MapSet(m, k, v) == [x \in (DOMAIN m) \cup {k} |-> IF x = k THEN v ELSE m[x]]

MapDelete(m, ks) == [x \in (DOMAIN m) \ ks |-> m[x]]

----------------------------------------------------------------------------
(* Results returned to the caller *)

ErrInvalidUrl == "Invalid URL format. Please provide a valid HTTP/HTTPS URL."

ErrInvalidValidity == "Validity period must be a positive integer (minutes)."

ErrInvalidShortcode == "Invalid shortcode format. Use 3-20 alphanumeric characters."

ErrShortcodeTaken == "Shortcode already in use. Please choose a different one."

ErrNotFound == "Short URL not found."

ErrExpired == "Short URL has expired."

Failure(error) == [success |-> FALSE, threw |-> FALSE, error |-> error, data |-> <<>>]

Success(data) == [success |-> TRUE, threw |-> FALSE, error |-> "", data |-> <<data>>]

\* a call that returns nothing
Undefined == [success |-> FALSE, threw |-> FALSE, error |-> "", data |-> <<>>]

\* a call left by an exception
Thrown == [success |-> FALSE, threw |-> TRUE, error |-> "", data |-> <<>>]

\* the outcome of a call: what it returns, the collections and the storage
\* key after it, and whether it called saveToStorage
Outcome(r, u, cd, used, st, saved) ==
    [ret |-> r, urls |-> u, clickData |-> cd, usedShortcodes |-> used,
     storage |-> st, saved |-> saved]

\* the outcome of a call that returns r and changes nothing
Unchanged(r) == Outcome(r, urls, clickData, usedShortcodes, storage, FALSE)

----------------------------------------------------------------------------
(* Persistence *)

ToJSON(x) == IF x.kind = "Date" THEN ToJSONDate(x) ELSE x

StringifyClick(c) == [c EXCEPT !.timestamp = ToJSON(@)]

StringifyClicks(cs) == [i \in DOMAIN cs |-> StringifyClick(cs[i])]

StringifyRecord(r) ==
    [r EXCEPT !.createdAt = ToJSON(@),
              !.expiresAt = ToJSON(@),
              !.clicks = StringifyClicks(@)]

\* JSON.stringify of the three collections
Stringify(u, cd, used) ==
    [urls |-> [s \in DOMAIN u |-> StringifyRecord(u[s])],
     clickData |-> [s \in DOMAIN cd |-> StringifyClicks(cd[s])],
     usedShortcodes |-> used]

\* saveToStorage without its try/catch: the exception of setItem leaves it
saveToStorage_NoCatch(u, cd, used, storageOk) ==
    [storage |-> IF storageOk THEN <<Stringify(u, cd, used)>> ELSE storage,
     threw |-> ~storageOk]

\* saveToStorage: the value of the storage key after it and whether an
\* exception leaves it; setItem throwing (storageOk = FALSE) is caught and
\* leaves the key as it was
saveToStorage(u, cd, used, storageOk) ==
    [storage |-> IF storageOk THEN <<Stringify(u, cd, used)>> ELSE storage,
     threw |-> FALSE]

\* what can go wrong at a load: nothing, getItem throws (storage
\* unavailable), JSON.parse throws (unparsable text), or one collection of
\* the parsed payload is a value `new Map` or `new Set` throws on
NoFault == "none"

LoadFaults == {NoFault, "getItem", "parse", "urls", "clickData", "usedShortcodes"}

\* what a load reads: the value of the storage key and the fault it meets
StorageRead(item, fault) == [item |-> item, fault |-> fault]

\* loadFromStorage: the three collections after it, given the ones before
\* and what it reads, and whether an exception leaves it; JSON.parse leaves
\* ISO strings as strings; the three assignments are made in turn, and the
\* catch keeps the ones made before an exception
loadFromStorage(read, u, cd, used) ==
    LET kept == [urls |-> u, clickData |-> cd, usedShortcodes |-> used,
                 threw |-> FALSE]
    IN  IF read.fault = "getItem" THEN kept
        ELSE IF read.item = <<>> THEN kept
        ELSE IF read.fault = "parse" THEN kept
        ELSE LET parsedData == read.item[1]
             IN  IF read.fault = "urls" THEN kept
                 ELSE IF read.fault = "clickData"
                 THEN [kept EXCEPT !.urls = parsedData.urls]
                 ELSE IF read.fault = "usedShortcodes"
                 THEN [kept EXCEPT !.urls = parsedData.urls,
                                   !.clickData = parsedData.clickData]
                 ELSE [kept EXCEPT !.urls = parsedData.urls,
                                   !.clickData = parsedData.clickData,
                                   !.usedShortcodes = parsedData.usedShortcodes]

----------------------------------------------------------------------------
(* Shortcodes *)

isShortcodeAvailable(shortcode) == shortcode \notin usedShortcodes

maxAttempts == 100

\* a code the random loop can produce: 6 characters of chars
Drawable(c) == Len(c) = 6 /\ \A i \in 1..6 : c[i] \in Alphanumeric

\* the loop of generateShortcode can make draw.attempts draws ending with
\* draw.last: every draw but the last collided, and the loop stops before
\* the limit only on a draw that does not collide
CanDraw(draw) ==
    /\ draw.attempts >= 1
    /\ draw.attempts > 1 => \E c \in usedShortcodes : Drawable(c)
    /\ draw.attempts < maxAttempts => draw.last \notin usedShortcodes

\* the fallback with a separator between 'url' and the timestamp
FallbackShortcode_Separated(t) == <<"u","r","l","_">> \o ToStringRadix(t, Base36Digits)

FallbackShortcode(t) == <<"u","r","l">> \o ToStringRadix(t, Base36Digits)

\* generateShortcode without `this.usedShortcodes.add(shortcode)`
generateShortcode_NoAdd(draw) ==
    LET shortcode == IF draw.attempts >= maxAttempts
                     THEN FallbackShortcode(now)
                     ELSE draw.last
    IN  [shortcode |-> shortcode, usedShortcodes |-> usedShortcodes]

\* generateShortcode: the code it returns and the assigned set after it
generateShortcode(draw) ==
    LET shortcode == IF draw.attempts >= maxAttempts
                     THEN FallbackShortcode(now)
                     ELSE draw.last
    IN  [shortcode |-> shortcode, usedShortcodes |-> usedShortcodes \cup {shortcode}]

----------------------------------------------------------------------------
(* Operations of the service *)

\* the record with the validity period taken as seconds
NewUrlData_Seconds(originalUrl, validityMinutes, shortcode) ==
    [id |-> ToStringRadix(now, DigitChars),
     originalUrl |-> originalUrl,
     shortcode |-> shortcode,
     shortUrl |-> <<"origin/", shortcode>>,
     createdAt |-> Date(now),
     expiresAt |-> Date(now + IntegerValue(validityMinutes) * 1000),
     validityMinutes |-> IntegerValue(validityMinutes),
     clickCount |-> 0,
     clicks |-> <<>>]

NewUrlData(originalUrl, validityMinutes, shortcode) ==
    [id |-> ToStringRadix(now, DigitChars),
     originalUrl |-> originalUrl,
     shortcode |-> shortcode,
     shortUrl |-> <<"origin/", shortcode>>,
     createdAt |-> Date(now),
     expiresAt |-> Date(now + IntegerValue(validityMinutes) * MsPerMinute),
     validityMinutes |-> IntegerValue(validityMinutes),
     clickCount |-> 0,
     clicks |-> <<>>]

\* the part of createShortURL after the shortcode is chosen
StoreShortURL(originalUrl, validityMinutes, shortcode, used, storageOk) ==
    LET urlData == NewUrlData(originalUrl, validityMinutes, shortcode)
        u == MapSet(urls, shortcode, urlData)
        cd == MapSet(clickData, shortcode, <<>>)
        saved == saveToStorage(u, cd, used, storageOk)
    IN  Outcome(IF saved.threw THEN Thrown ELSE Success(urlData),
                u, cd, used, saved.storage, TRUE)

\* createShortURL with the validity period checked before the URL
createShortURL_ValidityFirst(originalUrl, validityArg, customShortcode, draw, storageOk) ==
    LET validityMinutes == ValidityOrDefault(validityArg)
    IN  IF ~IsPositiveInteger(validityMinutes)
        THEN Unchanged(Failure(ErrInvalidValidity))
        ELSE IF ~validateURL(originalUrl)
        THEN Unchanged(Failure(ErrInvalidUrl))
        ELSE IF customShortcode # <<>>
        THEN IF ~validateShortcode(customShortcode)
             THEN Unchanged(Failure(ErrInvalidShortcode))
             ELSE IF ~isShortcodeAvailable(customShortcode)
             THEN Unchanged(Failure(ErrShortcodeTaken))
             ELSE StoreShortURL(originalUrl, validityMinutes, customShortcode,
                                usedShortcodes, storageOk)
        ELSE LET generated == generateShortcode(draw)
             IN  StoreShortURL(originalUrl, validityMinutes, generated.shortcode,
                               generated.usedShortcodes, storageOk)

createShortURL(originalUrl, validityArg, customShortcode, draw, storageOk) ==
    LET validityMinutes == ValidityOrDefault(validityArg)
    IN  IF ~validateURL(originalUrl)
        THEN Unchanged(Failure(ErrInvalidUrl))
        ELSE IF ~IsPositiveInteger(validityMinutes)
        THEN Unchanged(Failure(ErrInvalidValidity))
        ELSE IF customShortcode # <<>>
        THEN IF ~validateShortcode(customShortcode)
             THEN Unchanged(Failure(ErrInvalidShortcode))
             ELSE IF ~isShortcodeAvailable(customShortcode)
             THEN Unchanged(Failure(ErrShortcodeTaken))
             ELSE StoreShortURL(originalUrl, validityMinutes, customShortcode,
                                usedShortcodes, storageOk)
        ELSE LET generated == generateShortcode(draw)
             IN  StoreShortURL(originalUrl, validityMinutes, generated.shortcode,
                               generated.usedShortcodes, storageOk)

getClickSource == IF referrer # "" THEN referrer ELSE "Direct"

getClickLocation == "Unknown"

\* recordClick without `urlData.clickCount++`
recordClick_NoCount(shortcode, storageOk) ==
    IF shortcode \notin DOMAIN urls
    THEN Unchanged(Undefined)
    ELSE LET click == [timestamp |-> Date(now),
                       source |-> getClickSource,
                       location |-> getClickLocation]
             u == [urls EXCEPT ![shortcode].clicks = Append(@, click)]
             cd == [clickData EXCEPT ![shortcode] = Append(@, click)]
             saved == saveToStorage(u, cd, usedShortcodes, storageOk)
         IN  IF shortcode \notin DOMAIN clickData
             THEN Outcome(Thrown, u, clickData, usedShortcodes, storage, FALSE)
             ELSE Outcome(IF saved.threw THEN Thrown ELSE Undefined,
                          u, cd, usedShortcodes, saved.storage, TRUE)

\* recordClick without the closing `this.saveToStorage()`
recordClick_NoSave(shortcode, storageOk) ==
    IF shortcode \notin DOMAIN urls
    THEN Unchanged(Undefined)
    ELSE LET click == [timestamp |-> Date(now),
                       source |-> getClickSource,
                       location |-> getClickLocation]
             u == [urls EXCEPT ![shortcode].clickCount = @ + 1,
                               ![shortcode].clicks = Append(@, click)]
             cd == [clickData EXCEPT ![shortcode] = Append(@, click)]
         IN  IF shortcode \notin DOMAIN clickData
             THEN Outcome(Thrown, u, clickData, usedShortcodes, storage, FALSE)
             ELSE Outcome(Undefined, u, cd, usedShortcodes, storage, FALSE)

recordClick(shortcode, storageOk) ==
    IF shortcode \notin DOMAIN urls
    THEN Unchanged(Undefined)
    ELSE LET click == [timestamp |-> Date(now),
                       source |-> getClickSource,
                       location |-> getClickLocation]
             u == [urls EXCEPT ![shortcode].clickCount = @ + 1,
                               ![shortcode].clicks = Append(@, click)]
             cd == [clickData EXCEPT ![shortcode] = Append(@, click)]
             saved == saveToStorage(u, cd, usedShortcodes, storageOk)
         IN  IF shortcode \notin DOMAIN clickData
             THEN \* clickData.get(shortcode) is undefined: push throws
                  Outcome(Thrown, u, clickData, usedShortcodes, storage, FALSE)
             ELSE Outcome(IF saved.threw THEN Thrown ELSE Undefined,
                          u, cd, usedShortcodes, saved.storage, TRUE)

\* getOriginalURL returning a copy of the record taken before recordClick
getOriginalURL_StaleData(shortcode, storageOk) ==
    IF shortcode \notin DOMAIN urls
    THEN Unchanged(Failure(ErrNotFound))
    ELSE IF DateGreater(Date(now), urls[shortcode].expiresAt)
    THEN Unchanged(Failure(ErrExpired))
    ELSE LET recorded == recordClick(shortcode, storageOk)
         IN  [recorded EXCEPT !.ret = IF recorded.ret.threw
                                       THEN Thrown
                                       ELSE Success(urls[shortcode])]

\* getOriginalURL deleting the record it finds expired
getOriginalURL_PurgeExpired(shortcode, storageOk) ==
    IF shortcode \notin DOMAIN urls
    THEN Unchanged(Failure(ErrNotFound))
    ELSE IF DateGreater(Date(now), urls[shortcode].expiresAt)
    THEN Outcome(Failure(ErrExpired), MapDelete(urls, {shortcode}),
                 MapDelete(clickData, {shortcode}), usedShortcodes, storage, FALSE)
    ELSE LET recorded == recordClick(shortcode, storageOk)
         IN  [recorded EXCEPT !.ret = IF recorded.ret.threw
                                       THEN Thrown
                                       ELSE Success(recorded.urls[shortcode])]

getOriginalURL(shortcode, storageOk) ==
    IF shortcode \notin DOMAIN urls
    THEN Unchanged(Failure(ErrNotFound))
    ELSE IF DateGreater(Date(now), urls[shortcode].expiresAt)
    THEN Unchanged(Failure(ErrExpired))
    ELSE LET recorded == recordClick(shortcode, storageOk)
         IN  [recorded EXCEPT !.ret = IF recorded.ret.threw
                                       THEN Thrown
                                       ELSE Success(recorded.urls[shortcode])]

\* Array.from of the values of a map, as the number of times each value
\* occurs in the array (the order of the array is the insertion order of the
\* map, which the model does not keep)
ArrayFromValues(m) ==
    [r \in {m[s] : s \in DOMAIN m} |-> Cardinality({s \in DOMAIN m : m[s] = r})]

\* the number of entries of such an array
RECURSIVE ArrayLength(_)
ArrayLength(a) ==
    IF DOMAIN a = {}
    THEN 0
    ELSE LET r == CHOOSE x \in DOMAIN a : TRUE
         IN  a[r] + ArrayLength([x \in DOMAIN a \ {r} |-> a[x]])

\* getAllURLs leaving out the records that are past their expiry
getAllURLs_LiveOnly ==
    Unchanged(ArrayFromValues(
        MapDelete(urls, {s \in DOMAIN urls : DateGreater(Date(now), urls[s].expiresAt)})))

getAllURLs == Unchanged(ArrayFromValues(urls))

\* the null getURLStats returns
Null == <<>>

\* getURLStats counting the view as a click
getURLStats_CountsView(shortcode) ==
    IF shortcode \notin DOMAIN urls
    THEN Unchanged(Null)
    ELSE LET stats == [urls[shortcode] EXCEPT
                          !.clicks = IF shortcode \in DOMAIN clickData
                                     THEN clickData[shortcode]
                                     ELSE <<>>]
         IN  Outcome(<<stats>>, [urls EXCEPT ![shortcode].clickCount = @ + 1],
                     clickData, usedShortcodes, storage, FALSE)

\* getURLStats with the clicks of the statistics left empty
getURLStats_NoHistory(shortcode) ==
    IF shortcode \notin DOMAIN urls
    THEN Unchanged(Null)
    ELSE Unchanged(<<[urls[shortcode] EXCEPT !.clicks = <<>>]>>)

getURLStats(shortcode) ==
    IF shortcode \notin DOMAIN urls
    THEN Unchanged(Null)
    ELSE LET stats == [urls[shortcode] EXCEPT
                          !.clicks = IF shortcode \in DOMAIN clickData
                                     THEN clickData[shortcode]
                                     ELSE <<>>]
         IN  Unchanged(<<stats>>)

debugGetAllURLs ==
    Unchanged(ArrayFromValues(
        [s \in DOMAIN urls |->
            [shortcode |-> s,
             originalUrl |-> urls[s].originalUrl,
             shortUrl |-> urls[s].shortUrl,
             createdAt |-> urls[s].createdAt,
             expiresAt |-> urls[s].expiresAt,
             isExpired |-> DateGreater(Date(now), urls[s].expiresAt)]]))

\* cleanupExpiredURLs without `this.usedShortcodes.delete(shortcode)`
cleanupExpiredURLs_KeepUsed(storageOk) ==
    LET expired == {s \in DOMAIN urls : DateGreater(Date(now), urls[s].expiresAt)}
        cleanedCount == Cardinality(expired)
        u == MapDelete(urls, expired)
        cd == MapDelete(clickData, expired)
        saved == saveToStorage(u, cd, usedShortcodes, storageOk)
    IN  IF cleanedCount > 0
        THEN Outcome(IF saved.threw THEN Thrown ELSE Undefined,
                     u, cd, usedShortcodes, saved.storage, TRUE)
        ELSE Outcome(Undefined, u, cd, usedShortcodes, storage, FALSE)

cleanupExpiredURLs(storageOk) ==
    LET expired == {s \in DOMAIN urls : DateGreater(Date(now), urls[s].expiresAt)}
        cleanedCount == Cardinality(expired)
        u == MapDelete(urls, expired)
        cd == MapDelete(clickData, expired)
        used == usedShortcodes \ expired
        saved == saveToStorage(u, cd, used, storageOk)
    IN  IF cleanedCount > 0
        THEN Outcome(IF saved.threw THEN Thrown ELSE Undefined,
                     u, cd, used, saved.storage, TRUE)
        ELSE Outcome(Undefined, u, cd, used, storage, FALSE)

----------------------------------------------------------------------------
(* The redirect page (src/src/components/RedirectHandler.js) *)

ErrInvalidShortUrl == "Invalid short URL"

ErrUnexpected == "An unexpected error occurred"

\* the state of the component: status, error, originalUrl, the address the
\* window was sent to (none: the empty sequence), and the outcome of its
\* call of the service
Handler(status, error, originalUrl, href, out) ==
    [status |-> status, error |-> error, originalUrl |-> originalUrl,
     href |-> href, out |-> out]

\* the component as mounted, before its effect runs
Mounted == Handler("loading", "", "", <<>>, Unchanged(Undefined))

\* handleRedirect without its try/catch: an exception leaves the component
\* as mounted
handleRedirect_NoCatch(shortcode, storageOk) ==
    IF shortcode = <<>>
    THEN [Mounted EXCEPT !.status = "error", !.error = ErrInvalidShortUrl]
    ELSE LET out == getOriginalURL(shortcode, storageOk)
         IN  IF out.ret.threw
             THEN [Mounted EXCEPT !.out = out]
             ELSE IF out.ret.success
             THEN Handler("success", "", out.ret.data[1].originalUrl,
                          <<out.ret.data[1].originalUrl>>, out)
             ELSE Handler("error", out.ret.error, "", <<>>, out)

\* handleRedirect: the component after its effect has run for the shortcode
\* of the route (none: the empty sequence)
handleRedirect(shortcode, storageOk) ==
    IF shortcode = <<>>
    THEN [Mounted EXCEPT !.status = "error", !.error = ErrInvalidShortUrl]
    ELSE LET out == getOriginalURL(shortcode, storageOk)
         IN  IF out.ret.threw
             THEN Handler("error", ErrUnexpected, "", <<>>, out)
             ELSE IF out.ret.success
             THEN Handler("success", "", out.ret.data[1].originalUrl,
                          <<out.ret.data[1].originalUrl>>, out)
             ELSE Handler("error", out.ret.error, "", <<>>, out)

----------------------------------------------------------------------------
(* The submission form: its rows, of which the model keeps the ids *)

\* the row the form starts with: { id: 1, ... }
InitialRows == <<1>>

\* the limit of addUrlRow: `urls.length >= 5`
MaxRows == 5

\* Math.max(...urls.map(u => u.id))
MaxId(rs) == CHOOSE m \in Range(rs) : \A x \in Range(rs) : x <= m

\* addUrlRow without the check of the number of rows
addUrlRow_NoLimit == Append(rows, MaxId(rows) + 1)

\* addUrlRow: the rows after it
addUrlRow ==
    IF Len(rows) >= MaxRows
    THEN rows
    ELSE Append(rows, MaxId(rows) + 1)

\* removeUrlRow(id): the rows after it
removeUrlRow(id) ==
    IF Len(rows) <= 1
    THEN rows
    ELSE SelectSeq(rows, LAMBDA x : x # id)

----------------------------------------------------------------------------
(* The logger (src/src/utils/logger.js); a logger is its currentLevel and  *)
(* its logs                                                                 *)

logLevels == [ERROR |-> 0, WARN |-> 1, INFO |-> 2, DEBUG |-> 3]

LevelNames == DOMAIN logLevels

\* the logger the constructor builds
NewLogger == [currentLevel |-> logLevels.INFO, logs |-> <<>>]

\* setLevel: `this.logLevels[level] || this.logLevels.INFO`, where the lookup
\* of an unknown name is undefined, and undefined and 0 are falsy
setLevel(lg, level) ==
    LET found == IF level \in DOMAIN logLevels THEN <<logLevels[level]>> ELSE <<>>
    IN  [lg EXCEPT !.currentLevel = IF found = <<>> \/ found[1] = 0
                                    THEN logLevels.INFO
                                    ELSE found[1]]

\* formatLog with no data: the entry is pushed on logs
formatLog(lg, level, message) ==
    [lg EXCEPT !.logs = Append(@, [timestamp |-> ToJSONDate(Date(now)),
                                   level |-> level,
                                   message |-> message,
                                   data |-> <<>>])]

\* error, warn, info and debug, by the name of the method's level
log(lg, level, message) ==
    IF lg.currentLevel >= logLevels[level]
    THEN formatLog(lg, level, message)
    ELSE lg

clearLogs(lg) == [lg EXCEPT !.logs = <<>>]

----------------------------------------------------------------------------
(* State machine *)

Init ==
    /\ urls = EmptyMap
    /\ clickData = EmptyMap
    /\ shortcodeCounter = 1
    /\ usedShortcodes = {}
    /\ storage = <<>>
    /\ now = 0
    /\ referrer \in Referrers
    /\ steps = 0
    /\ rows = InitialRows
    /\ logger = NewLogger

\* the outcomes of setItem a call can meet: it works or it throws, when the
\* call reaches it (out is the outcome of the call with setItem working)
StorageOutcomes(out) == IF out.saved THEN BOOLEAN ELSE {TRUE}

\* a step that changes the service, its storage key or the clock is counted
Counted(changes) ==
    /\ changes => steps < MaxSteps
    /\ steps' = IF changes THEN steps + 1 ELSE steps

\* the state after a call with outcome out
Apply(out) ==
    /\ urls' = out.urls
    /\ clickData' = out.clickData
    /\ usedShortcodes' = out.usedShortcodes
    /\ storage' = out.storage
    /\ Counted(<<urls', clickData', usedShortcodes', storage'>>
                 # <<urls, clickData, usedShortcodes, storage>>)
    /\ UNCHANGED <<shortcodeCounter, now, referrer, ui>>

\* the calls of createShortURL the model makes, as <<originalUrl,
\* validityMinutes, customShortcode, draw>>: an argument the call returns
\* without reading takes one value only, the validity is passed (as the form
\* does), and the draw is one the random loop can make in the current state
CreateCalls ==
    LET validUrls == {u \in UrlInputs : validateURL(u)}
        validValidities == {v \in ValidityInputs \ {OmittedValidity} :
                                IsPositiveInteger(v)}
    IN  {<<u, Minutes(1), NoShortcode, NoDraw>> : u \in UrlInputs \ validUrls}
        \cup {<<u, v, NoShortcode, NoDraw>> :
                   u \in validUrls,
                   v \in (ValidityInputs \ {OmittedValidity}) \ validValidities}
        \cup {<<u, v, c, NoDraw>> :
                   u \in validUrls, v \in validValidities,
                   c \in CustomInputs \ {NoShortcode}}
        \cup {<<u, v, NoShortcode, d>> :
                   u \in validUrls, v \in validValidities,
                   d \in {d \in Draws : CanDraw(d)}}

Create ==
    \E call \in CreateCalls :
      \E storageOk \in StorageOutcomes(createShortURL(call[1], call[2], call[3],
                                                      call[4], TRUE)) :
        \E out \in {createShortURL(call[1], call[2], call[3], call[4], storageOk)} :
            Apply(out)

Shortcodes == (CustomInputs \ {NoShortcode}) \cup DrawCodes

Resolve ==
    \E shortcode \in Shortcodes \cup DOMAIN urls :
        \E storageOk \in StorageOutcomes(getOriginalURL(shortcode, TRUE)) :
          \E out \in {getOriginalURL(shortcode, storageOk)} :
            Apply(out)

Cleanup ==
    \E storageOk \in StorageOutcomes(cleanupExpiredURLs(TRUE)) :
      \E out \in {cleanupExpiredURLs(storageOk)} :
        Apply(out)

\* the statistics view lists the records
ListAll == \E out \in {getAllURLs} : Apply(out)

\* the statistics view asks for the statistics of a shortcode
Stats ==
    \E shortcode \in Shortcodes \cup DOMAIN urls :
        \E out \in {getURLStats(shortcode)} : Apply(out)

\* the form's debug button
Debug == \E out \in {debugGetAllURLs} : Apply(out)

\* a page load: the module is evaluated again and constructs the singleton,
\* whose load meets the given fault
Load(fault) ==
    LET loaded == loadFromStorage(StorageRead(storage, fault), EmptyMap, EmptyMap, {})
    IN  /\ urls' = loaded.urls
        /\ clickData' = loaded.clickData
        /\ shortcodeCounter' = 1
        /\ usedShortcodes' = loaded.usedShortcodes
        /\ Counted(<<urls', clickData', usedShortcodes'>> # mem)
        /\ UNCHANGED <<storage, now, referrer, ui>>

\* a page load with the storage key as the service left it
Restart == Load(NoFault)

\* a page load that finds the storage unavailable or its content damaged
FaultyRestart == \E fault \in LoadFaults \ {NoFault} : Load(fault)

Tick ==
    /\ now' = now + MsPerMinute
    /\ Counted(TRUE)
    /\ UNCHANGED <<mem, shortcodeCounter, storage, referrer, ui>>

Next ==
    \/ Create
    \/ Resolve
    \/ Cleanup
    \/ ListAll
    \/ Stats
    \/ Debug
    \/ Restart
    \/ Tick

Spec == Init /\ [][Next]_vars

----------------------------------------------------------------------------
(* The form on its own *)

\* the largest row id the model lets the form reach
MaxRowId == 7

\* the registry and the logger, which the form's row handlers leave alone
\* (but for the log entries, which SpecLogger follows)
registry == <<urls, clickData, shortcodeCounter, usedShortcodes, storage, now,
              referrer, steps>>

AddUrlRow ==
    /\ MaxId(rows) < MaxRowId
    /\ rows' = addUrlRow
    /\ UNCHANGED <<registry, logger>>

RemoveUrlRow ==
    \E id \in 1..MaxRowId :
        /\ rows' = removeUrlRow(id)
        /\ UNCHANGED <<registry, logger>>

NextForm == AddUrlRow \/ RemoveUrlRow

SpecForm == Init /\ [][NextForm]_vars

----------------------------------------------------------------------------
(* The logger on its own *)

\* the largest number of entries the model lets logs hold
MaxLogs == 3

\* the arguments of setLevel: the documented names and an unknown one
LevelInputs == LevelNames \cup {"TRACE"}

SetLevel ==
    \E level \in LevelInputs :
        /\ logger' = setLevel(logger, level)
        /\ UNCHANGED <<registry, rows>>

LogMessage ==
    \E level \in LevelNames :
        /\ Len(logger.logs) < MaxLogs
        /\ logger' = log(logger, level, "message")
        /\ UNCHANGED <<registry, rows>>

ClearLogs ==
    /\ logger' = clearLogs(logger)
    /\ UNCHANGED <<registry, rows>>

NextLogger == SetLevel \/ LogMessage \/ ClearLogs

SpecLogger == Init /\ [][NextLogger]_vars

----------------------------------------------------------------------------
(* The registry over runs of any length, with the cleanup timer firing and *)
(* the clock advancing: steps are not counted and the clock stops at       *)
(* MaxLiveMinutes                                                           *)

MaxLiveMinutes == 2

\* the state after a call with outcome out, the step not counted
LiveApply(out) ==
    /\ urls' = out.urls
    /\ clickData' = out.clickData
    /\ usedShortcodes' = out.usedShortcodes
    /\ storage' = out.storage
    /\ UNCHANGED <<shortcodeCounter, now, referrer, steps, ui>>

\* the calls of createShortURL of these runs: a custom code or a first draw
LiveCreateCalls ==
    {<<UrlA, Minutes(1), CustomAbc, NoDraw>>}
    \cup {<<UrlA, Minutes(1), NoShortcode, d>> :
              d \in {d \in Draws : CanDraw(d) /\ d.attempts = 1 /\ d.last = DrawCode(1)}}

LiveCreate ==
    \E call \in LiveCreateCalls, storageOk \in BOOLEAN :
        \E out \in {createShortURL(call[1], call[2], call[3], call[4], storageOk)} :
            LiveApply(out)

\* the callback of setInterval
LiveCleanup ==
    \E storageOk \in BOOLEAN :
        \E out \in {cleanupExpiredURLs(storageOk)} : LiveApply(out)

LiveRestart ==
    LET loaded == loadFromStorage(StorageRead(storage, NoFault), EmptyMap, EmptyMap, {})
    IN  /\ urls' = loaded.urls
        /\ clickData' = loaded.clickData
        /\ shortcodeCounter' = 1
        /\ usedShortcodes' = loaded.usedShortcodes
        /\ UNCHANGED <<storage, now, referrer, steps, ui>>

LiveTick ==
    /\ now < MaxLiveMinutes * MsPerMinute
    /\ now' = now + MsPerMinute
    /\ UNCHANGED <<mem, shortcodeCounter, storage, referrer, steps, ui>>

NextLive == LiveCreate \/ LiveCleanup \/ LiveRestart \/ LiveTick

\* the timer keeps firing and the clock keeps advancing
SpecLive ==
    /\ Init
    /\ [][NextLive]_vars
    /\ WF_vars(LiveCleanup)
    /\ WF_vars(LiveTick)

\* the shortcode of the route of the redirect page: a code or none
RouteShortcodes == Shortcodes \cup {NoShortcode}

\* the redirect page is opened (its call of the service is the one of Resolve)
Redirect ==
    \E shortcode \in RouteShortcodes \cup DOMAIN urls, storageOk \in BOOLEAN :
        \E handler \in {handleRedirect(shortcode, storageOk)} :
            Apply(handler.out)

\* the service in an environment that can damage the storage key
NextFaulty == Next \/ FaultyRestart \/ Redirect

SpecFaulty == Init /\ [][NextFaulty]_vars

----------------------------------------------------------------------------
(* Properties *)

ValidUrls == {u \in UrlInputs : validateURL(u)}

ValidValidities == {v \in ValidityInputs : IsPositiveInteger(ValidityOrDefault(v))}

\* the draws generateShortcode can make in the current state
PossibleDraws == {d \in Draws : CanDraw(d)}

\* the time value of a stored date, whatever its representation
TimeOf(d) == d.ms

\* every call of createShortURL on the inputs of the model, as <<originalUrl,
\* validityMinutes, customShortcode, draw>>, the validity left out included
AllCreateCalls ==
    {<<u, v, c, d>> : u \in UrlInputs, v \in ValidityInputs,
                      c \in CustomInputs \ {NoShortcode}, d \in {NoDraw}}
    \cup {<<u, v, NoShortcode, d>> :
              u \in UrlInputs, v \in ValidityInputs, d \in PossibleDraws}

\* the calls among them that pass the checks of the URL and of the validity
ValidCreateCalls ==
    {<<u, v, c, d>> : u \in ValidUrls, v \in ValidValidities,
                      c \in CustomInputs \ {NoShortcode}, d \in {NoDraw}}
    \cup {<<u, v, NoShortcode, d>> :
              u \in ValidUrls, v \in ValidValidities, d \in PossibleDraws}

\* C1: once a record is tracked under a custom shortcode c, createShortURL
\* with the custom shortcode c and a valid URL and validity returns the
\* 'Shortcode already in use' error.
C1_CustomShortcodeTaken ==
    \A c \in CustomInputs \cap DOMAIN urls :
        \A u \in ValidUrls, v \in ValidValidities :
            createShortURL(u, v, c, NoDraw, TRUE).ret = Failure(ErrShortcodeTaken)

\* C2: getOriginalURL on a tracked record whose expiresAt is earlier than the
\* current time returns the Expired error and records no click.
C2_ExpiredNeverResolves ==
    \A s \in DOMAIN urls :
        TimeOf(urls[s].expiresAt) < now =>
            \A ok \in BOOLEAN :
                LET out == getOriginalURL(s, ok)
                IN  /\ out.ret = Failure(ErrExpired)
                    /\ out.urls = urls
                    /\ out.clickData = clickData

IsPrefix(a, b) == Len(a) <= Len(b) /\ SubSeq(b, 1, Len(a)) = a

\* C3: getOriginalURL on a tracked record at a time not after its expiresAt
\* returns success, adds exactly 1 to that record's clickCount and one click
\* event to its clicks, changes nothing else of that record and no other
\* record, and returns the record with the incremented clickCount.
C3_ResolveCountsOneClick ==
    \A s \in DOMAIN urls :
        now <= TimeOf(urls[s].expiresAt) =>
            \A ok \in BOOLEAN :
                LET out == getOriginalURL(s, ok)
                IN  /\ out.ret.success
                    /\ DOMAIN out.urls = DOMAIN urls
                    /\ out.urls[s].clickCount = urls[s].clickCount + 1
                    /\ Len(out.urls[s].clicks) = Len(urls[s].clicks) + 1
                    /\ IsPrefix(urls[s].clicks, out.urls[s].clicks)
                    /\ out.urls[s] = [urls[s] EXCEPT !.clickCount = out.urls[s].clickCount,
                                                     !.clicks = out.urls[s].clicks]
                    /\ \A t \in DOMAIN urls \ {s} : out.urls[t] = urls[t]
                    /\ out.ret.data = <<out.urls[s]>>
                    /\ out.ret.data[1].clickCount = urls[s].clickCount + 1

\* a record that was resolved twice, next to another record
C3_Witness ==
    \E s \in DOMAIN urls, t \in DOMAIN urls :
        /\ s # t
        /\ urls[s].clickCount = 2
        /\ now <= TimeOf(urls[s].expiresAt)

\* a step of the cleanup pass
CleanupStep == \E ok \in BOOLEAN : Apply(cleanupExpiredURLs(ok))

\* the shortcodes a step removes from the live mapping
Purged == DOMAIN urls \ DOMAIN urls'

C5_CleanupRemovesExactlyExpired ==
    \A ok \in BOOLEAN :
        LET out == cleanupExpiredURLs(ok)
        IN  /\ DOMAIN out.urls = {s \in DOMAIN urls : ~(TimeOf(urls[s].expiresAt) < now)}
            /\ \A s \in DOMAIN out.urls : out.urls[s] = urls[s]

\* C6: a shortcode createShortURL generates differs from every shortcode it
\* generated before, whatever the random draws.
C6_GeneratedShortcodesDistinct ==
    \A d \in PossibleDraws, u \in ValidUrls, v \in ValidValidities :
        LET out == createShortURL(u, v, NoShortcode, d, TRUE)
        IN  out.ret.success => out.ret.data[1].shortcode \notin usedShortcodes

\* C7: every tracked record has clickCount = Len(clicks) >= 0, and the record
\* a successful createShortURL stores and returns has clickCount 0 and no
\* clicks.
C7_ClickCountIsLenClicks ==
    /\ \A s \in DOMAIN urls :
        /\ urls[s].clickCount = Len(urls[s].clicks)
        /\ urls[s].clickCount >= 0
    /\ \A call \in CreateCalls :
        \A out \in {createShortURL(call[1], call[2], call[3], call[4], TRUE)} :
            out.ret.success =>
                /\ out.ret.data[1].clickCount = 0
                /\ out.ret.data[1].clicks = <<>>
                /\ out.urls[out.ret.data[1].shortcode] = out.ret.data[1]

\* a record that was created and then resolved
C7_Witness == \E s \in DOMAIN urls : urls[s].clickCount >= 1

\* two stored dates behave alike in the expiry comparison
SameExpiry(d1, d2) ==
    /\ TimeOf(d1) = TimeOf(d2)
    /\ \A t \in {TimeOf(d1) - 1, TimeOf(d1), TimeOf(d1) + 1} :
        DateGreater(Date(t), d1) = DateGreater(Date(t), d2)

SameClicks(cs1, cs2) ==
    /\ Len(cs1) = Len(cs2)
    /\ \A i \in DOMAIN cs1 :
        /\ TimeOf(cs1[i].timestamp) = TimeOf(cs2[i].timestamp)
        /\ cs1[i].source = cs2[i].source
        /\ cs1[i].location = cs2[i].location

EquivalentRecord(r1, r2) ==
    /\ r1.id = r2.id
    /\ r1.originalUrl = r2.originalUrl
    /\ r1.shortcode = r2.shortcode
    /\ r1.shortUrl = r2.shortUrl
    /\ r1.validityMinutes = r2.validityMinutes
    /\ r1.clickCount = r2.clickCount
    /\ SameClicks(r1.clicks, r2.clicks)
    /\ SameExpiry(r1.createdAt, r2.createdAt)
    /\ SameExpiry(r1.expiresAt, r2.expiresAt)

\* C8: saveToStorage followed by loadFromStorage into a fresh instance gives
\* the same mapping, with dates that behave as before in the expiry
\* comparison, the same click histories and the same assigned set.
C8_SaveLoadRoundTrip ==
    LET saved == saveToStorage(urls, clickData, usedShortcodes, TRUE)
        loaded == loadFromStorage(StorageRead(saved.storage, NoFault),
                                  EmptyMap, EmptyMap, {})
    IN  /\ DOMAIN loaded.urls = DOMAIN urls
        /\ \A s \in DOMAIN urls : EquivalentRecord(loaded.urls[s], urls[s])
        /\ DOMAIN loaded.clickData = DOMAIN clickData
        /\ \A s \in DOMAIN clickData : SameClicks(loaded.clickData[s], clickData[s])
        /\ loaded.usedShortcodes = usedShortcodes

\* the in-memory part of an outcome
InMemory(out) == <<out.ret, out.urls, out.clickData, out.usedShortcodes>>

\* C9: with setItem throwing, createShortURL and getOriginalURL return what
\* they return with working storage, and leave the same collections.
C9_StorageFailureContained ==
    /\ \A call \in CreateCalls :
        \A failed \in {createShortURL(call[1], call[2], call[3], call[4], FALSE)} :
            /\ ~failed.ret.threw
            /\ InMemory(failed)
                 = InMemory(createShortURL(call[1], call[2], call[3], call[4], TRUE))
    /\ \A s \in Shortcodes \cup DOMAIN urls :
        \A failed \in {getOriginalURL(s, FALSE)} :
            /\ ~failed.ret.threw
            /\ InMemory(failed) = InMemory(getOriginalURL(s, TRUE))

\* a write has failed and the collections hold what the storage key lacks
C9_Witness ==
    /\ urls # EmptyMap
    /\ storage # <<Stringify(urls, clickData, usedShortcodes)>>

\* C10: getOriginalURL returns NotFound exactly for the shortcodes that are
\* no key of the live mapping, and Expired for a tracked shortcode whose
\* expiresAt is earlier than the current time.
C10_NotFoundOrExpired ==
    \A s \in Shortcodes \cup DOMAIN urls, ok \in BOOLEAN :
        LET r == getOriginalURL(s, ok).ret
        IN  /\ r = Failure(ErrNotFound) <=> s \notin DOMAIN urls
            /\ (s \in DOMAIN urls /\ TimeOf(urls[s].expiresAt) < now)
                   => r = Failure(ErrExpired)

\* the value createShortURL returns with working storage
CreateResult(call) == createShortURL(call[1], call[2], call[3], call[4], TRUE).ret

\* C11: createShortURL reports the first failure mode that applies, in the
\* order invalid URL, validity not a positive integer, then (only with a
\* custom shortcode) malformed shortcode, then shortcode in the assigned set,
\* each with its own error.
C11_FailureModesInOrder ==
    /\ Cardinality({ErrInvalidUrl, ErrInvalidValidity,
                     ErrInvalidShortcode, ErrShortcodeTaken}) = 4
    /\ \A call \in AllCreateCalls :
        \A r \in {CreateResult(call)} :
          LET urlOk == call[1] \in ValidUrls
              validityOk == call[2] \in ValidValidities
              c == call[3]
          IN  /\ ~urlOk => r = Failure(ErrInvalidUrl)
              /\ urlOk /\ ~validityOk => r = Failure(ErrInvalidValidity)
              /\ urlOk /\ validityOk /\ c # NoShortcode /\ ~validateShortcode(c)
                     => r = Failure(ErrInvalidShortcode)
              /\ (urlOk /\ validityOk /\ c # NoShortcode /\ validateShortcode(c)
                     /\ c \in usedShortcodes)
                     => r = Failure(ErrShortcodeTaken)
              /\ c = NoShortcode => r.error \notin {ErrInvalidShortcode, ErrShortcodeTaken}

\* a custom shortcode of the inputs is in the assigned set, so that each of
\* the four failure modes applies to some call
C11_Witness ==
    /\ \E c \in CustomInputs : validateShortcode(c) /\ c \in usedShortcodes
    /\ \E call \in AllCreateCalls : CreateResult(call) = Failure(ErrShortcodeTaken)
    /\ \E call \in AllCreateCalls : CreateResult(call) = Failure(ErrInvalidShortcode)
    /\ \E call \in AllCreateCalls : CreateResult(call) = Failure(ErrInvalidValidity)
    /\ \E call \in AllCreateCalls : CreateResult(call) = Failure(ErrInvalidUrl)

\* C12: a successful createShortURL(url, v, c) at time now returns, and stores
\* under its shortcode, a record with originalUrl = url, createdAt = now,
\* expiresAt = createdAt + v minutes (later than createdAt), clickCount = 0
\* and no clicks; with v left out the validity is 30 minutes.
C12_CreatedRecord ==
    \A call \in ValidCreateCalls, ok \in BOOLEAN :
      \A out \in {createShortURL(call[1], call[2], call[3], call[4], ok)} :
        LET data == out.ret.data[1]
            minutes == IF call[2] = OmittedValidity THEN 30 ELSE IntegerValue(call[2])
        IN  out.ret.success =>
                /\ data.originalUrl = call[1]
                /\ data.createdAt = Date(now)
                /\ data.expiresAt = Date(now + minutes * 60 * 1000)
                /\ TimeOf(data.expiresAt) > TimeOf(data.createdAt)
                /\ data.validityMinutes = minutes
                /\ data.clickCount = 0
                /\ data.clicks = <<>>
                /\ data.shortcode \in DOMAIN out.urls
                /\ out.urls[data.shortcode] = data

\* a record was created after the clock advanced and is stored as created
C12_Witness ==
    /\ now > 0
    /\ \E s \in DOMAIN urls :
        /\ urls[s].createdAt = Date(now)
        /\ urls[s].expiresAt = Date(now + 60 * 1000)
        /\ urls[s].clickCount = 0
    /\ \E call \in AllCreateCalls :
        /\ call[2] = OmittedValidity
        /\ CreateResult(call).success

\* C13: in every reachable state, every shortcode that is a key of the live
\* mapping is in the assigned set (a successful createShortURL puts its
\* shortcode into both).
C13_TrackedAreAssigned == DOMAIN urls \subseteq usedShortcodes

\* a step of an operation of the running service
ServiceStep == Create \/ Resolve \/ Cleanup

\* C14: a step of the service leaves the originalUrl, createdAt and expiresAt
\* of every tracked record as they are, does not decrease its clickCount and
\* only appends to its clicks, unless the step is a cleanup pass that removes
\* the record, and the record removed is expired.
C14_RecordLifecycle ==
    [][ServiceStep =>
        \A s \in DOMAIN urls :
            IF s \in DOMAIN urls'
            THEN /\ urls'[s].originalUrl = urls[s].originalUrl
                 /\ urls'[s].createdAt = urls[s].createdAt
                 /\ urls'[s].expiresAt = urls[s].expiresAt
                 /\ urls'[s].clickCount >= urls[s].clickCount
                 /\ IsPrefix(urls[s].clicks, urls'[s].clicks)
            ELSE /\ CleanupStep
                 /\ TimeOf(urls[s].expiresAt) < now
      ]_vars

\* C15: the records of two successful createShortURL calls have different
\* ids, also when both calls are made within one millisecond.
C15_DistinctIds ==
    \A s \in DOMAIN urls, t \in DOMAIN urls :
        s # t => urls[s].id # urls[t].id

\* C16: the shortcode of every record createShortURL stores has 3 to 20
\* characters, all alphanumeric, whether it was given as a custom code, drawn
\* at random or built by the 'url' + base-36 timestamp fallback.
C16_StoredShortcodesWellFormed ==
    /\ \A s \in DOMAIN urls :
        /\ urls[s].shortcode = s
        /\ validateShortcode(urls[s].shortcode)
    /\ \A call \in ValidCreateCalls :
        \A out \in {createShortURL(call[1], call[2], call[3], call[4], TRUE)} :
            out.ret.success =>
                /\ validateShortcode(out.ret.data[1].shortcode)
                /\ out.urls[out.ret.data[1].shortcode].shortcode = out.ret.data[1].shortcode

\* a custom code, a drawn code and a fallback code are tracked together
C16_Witness ==
    /\ CustomAbc \in DOMAIN urls
    /\ \E s \in DOMAIN urls : s \in DrawCodes
    /\ \E s \in DOMAIN urls : StartsWith(s, <<"u","r","l">>)

\* C17: a load that fails (storage unavailable, unparsable text, or any one
\* collection of the payload malformed) lets no exception escape and leaves
\* urls, clickData and usedShortcodes as they were before the load (those of
\* the fresh instance), none of them replaced.
C17_LoadFailureKeepsState ==
    \A fault \in LoadFaults \ {NoFault} :
        LET loaded == loadFromStorage(StorageRead(storage, fault), EmptyMap, EmptyMap, {})
        IN  /\ ~loaded.threw
            /\ loaded.urls = EmptyMap
            /\ loaded.clickData = EmptyMap
            /\ loaded.usedShortcodes = {}

\* the collections and the storage key an outcome leaves are the current ones
NoMutation(out) ==
    /\ out.urls = urls
    /\ out.clickData = clickData
    /\ out.usedShortcodes = usedShortcodes
    /\ out.storage = storage
    /\ ~out.saved

\* C18: getAllURLs, getURLStats (for any shortcode) and debugGetAllURLs leave
\* the mapping with every record's clickCount and clicks, the click-history
\* map, the assigned set and the persisted blob unchanged, in every state.
C18_ReadsDoNotMutate ==
    /\ NoMutation(getAllURLs)
    /\ \A s \in Shortcodes \cup DOMAIN urls : NoMutation(getURLStats(s))
    /\ NoMutation(debugGetAllURLs)

\* a record with clicks and a persisted blob, whose statistics are returned
C18_Witness ==
    /\ storage # <<>>
    /\ \E s \in DOMAIN urls :
        /\ urls[s].clickCount >= 1
        /\ getURLStats(s).ret # Null
    /\ ArrayLength(getAllURLs.ret) >= 1

\* C19: getURLStats(s) returns null exactly when s is no key of the live
\* mapping; otherwise it returns the fields of the record with its click
\* history, whose length is the clickCount returned.
C19_StatsOfTracked ==
    \A s \in Shortcodes \cup DOMAIN urls :
        LET r == getURLStats(s).ret
        IN  /\ r = Null <=> s \notin DOMAIN urls
            /\ s \in DOMAIN urls =>
                /\ r[1] = [urls[s] EXCEPT !.clicks = r[1].clicks]
                /\ r[1].clicks = clickData[s]
                /\ SameClicks(r[1].clicks, urls[s].clicks)
                /\ Len(r[1].clicks) = r[1].clickCount

\* a record with two clicks, reloaded from storage, next to an untracked code
C19_Witness ==
    /\ \E s \in DOMAIN urls :
        /\ urls[s].clickCount = 2
        /\ urls[s].createdAt.kind = "String"
    /\ \E s \in Shortcodes : s \notin DOMAIN urls

\* C20: getAllURLs returns every tracked record, expired or not, one entry
\* per tracked shortcode.
C20_ListsEveryTracked ==
    LET all == getAllURLs.ret
    IN  /\ \A s \in DOMAIN urls : urls[s] \in DOMAIN all /\ all[urls[s]] = 1
        /\ \A r \in DOMAIN all : \E s \in DOMAIN urls : urls[s] = r
        /\ ArrayLength(all) = Cardinality(DOMAIN urls)

\* a record past its expiry that no cleanup pass has removed, and a live one
C20_Witness ==
    /\ \E s \in DOMAIN urls : urls[s].expiresAt.kind = "Date" /\ TimeOf(urls[s].expiresAt) < now
    /\ \E s \in DOMAIN urls : TimeOf(urls[s].expiresAt) >= now

\* the shortcodes of the records of the runs of SpecLive
LiveCodes == {CustomAbc, DrawCode(1)}

\* the record tracked under s is past its expiry
TrackedExpired(s) == s \in DOMAIN urls /\ TimeOf(urls[s].expiresAt) < now

\* C21: with the cleanup timer firing and the clock advancing, a tracked
\* record that has expired does not stay in the live mapping for ever,
\* whether it was created in this session or restored from storage.
C21_ExpiredEventuallyRemoved ==
    \A s \in LiveCodes : TrackedExpired(s) ~> ~TrackedExpired(s)

\* C22: the redirect page, mounted in status 'loading', ends in 'success'
\* with the window sent to the record's originalUrl exactly when the resolve
\* succeeded, and otherwise in 'error' with the resolve's error ('Invalid
\* short URL' without a shortcode) and no navigation; an exception ends in
\* 'error' too, never in 'loading'.
C22_RedirectHandler ==
    /\ Mounted.status = "loading"
    /\ \A shortcode \in RouteShortcodes \cup DOMAIN urls, ok \in BOOLEAN :
        \A h \in {handleRedirect(shortcode, ok)} :
            /\ h.status \in {"success", "error"}
            /\ IF shortcode = NoShortcode
               THEN /\ h.status = "error"
                    /\ h.error = ErrInvalidShortUrl
                    /\ h.href = <<>>
                    /\ h.out.urls = urls
               ELSE \A r \in {getOriginalURL(shortcode, ok).ret} :
                    /\ h.status = "success" <=> r.success
                    /\ r.success =>
                        /\ h.href = <<urls[shortcode].originalUrl>>
                        /\ h.originalUrl = urls[shortcode].originalUrl
                    /\ ~r.success =>
                        /\ h.href = <<>>
                        /\ h.status = "error"
                        /\ ~r.threw => h.error = r.error
                        /\ r.threw => h.error = ErrUnexpected

\* one tracked shortcode whose resolve throws, one whose resolve succeeds and
\* one that is not tracked
C22_Witness ==
    /\ \E s \in DOMAIN urls : getOriginalURL(s, TRUE).ret.threw
    /\ \E s \in DOMAIN urls : handleRedirect(s, TRUE).status = "success"
    /\ \E s \in Shortcodes : handleRedirect(s, TRUE).error = ErrNotFound

\* C23: the form always holds between 1 and 5 rows with pairwise different
\* ids: addUrlRow changes nothing at 5 rows and removeUrlRow nothing at 1
\* row (so that one submission makes at most five createShortURL calls).
C23_FormRows ==
    /\ Len(rows) >= 1
    /\ Len(rows) <= 5
    /\ \A i \in DOMAIN rows, j \in DOMAIN rows : i # j => rows[i] # rows[j]
    /\ Len(rows) = 5 => addUrlRow = rows
    /\ Len(rows) = 1 => \A id \in 1..MaxRowId : removeUrlRow(id) = rows

\* five rows, whose ids are not the first five: rows were added and removed
C23_Witness ==
    /\ Len(rows) = 5
    /\ rows[1] # 1
    /\ addUrlRow = rows

\* the string of n characters c
Repeat(c, n) == [i \in 1..n |-> c]

\* strings at and around the limits of validateShortcode: every length from
\* 0 to 22, letters of both cases and digits, and at each position of a
\* well-formed string a character that is not alphanumeric
TestStrings ==
    {Repeat("a", n) : n \in 0..22}
    \cup {Repeat(c, n) : c \in {"Z", "0"}, n \in {2, 3, 20, 21}}
    \cup {[Repeat("a", n) EXCEPT ![i] = c] :
              n \in {3, 20}, i \in {1, 2, 3}, c \in {"-", "_", " ", "\n", "/", "."}}
    \cup {[Repeat("a", 20) EXCEPT ![20] = c] : c \in {"-", "\n"}}
    \cup CustomInputs \cup DrawCodes

\* the class [A-Za-z0-9], by its three ranges
IsAlphanumeric(c) ==
    \/ \E i \in DOMAIN UpperChars : UpperChars[i] = c
    \/ \E i \in DOMAIN LowerChars : LowerChars[i] = c
    \/ \E i \in DOMAIN DigitChars : DigitChars[i] = c

\* C24: validateShortcode(s) is true exactly when s has 3 to 20 characters,
\* all of [A-Za-z0-9]; it is false for every string shorter, longer or with
\* another character, and it reads and changes nothing of the registry.
WellFormed(s) ==
    Len(s) >= 3 /\ Len(s) <= 20 /\ \A i \in DOMAIN s : IsAlphanumeric(s[i])

\* the test strings validateShortcode accepts
AcceptedTestStrings == {s \in TestStrings : validateShortcode(s)}

\* the test strings of 3 to 20 alphanumeric characters
WellFormedTestStrings == {s \in TestStrings : WellFormed(s)}

\* validateShortcode accepts the well-formed test strings and no other
TestStringsAgree == AcceptedTestStrings = WellFormedTestStrings

\* every test string that is too short, too long or holds another character
\* is refused
MalformedRefused ==
    \A s \in TestStrings :
        (Len(s) < 3 \/ Len(s) > 20 \/ \E i \in DOMAIN s : ~IsAlphanumeric(s[i]))
            => s \notin AcceptedTestStrings

C24_ValidateShortcode ==
    /\ TestStringsAgree
    /\ MalformedRefused
    /\ \A s \in DOMAIN urls \cup usedShortcodes : validateShortcode(s) <=> WellFormed(s)

\* a well-formed custom code was stored, while a code of 2 and one of 21
\* characters are refused
C24_Witness ==
    /\ CustomAbc \in DOMAIN urls
    /\ validateShortcode(CustomAbc)
    /\ ~validateShortcode(CustomShort)
    /\ ~validateShortcode(Repeat("a", 21))
    /\ validateShortcode(Repeat("a", 20))
    /\ CreateResult(<<UrlA, Minutes(1), CustomShort, NoDraw>>) = Failure(ErrInvalidShortcode)

\* C25: generateShortcode puts the code it returns into the assigned set
\* before it returns, and a code it returns without the fallback was not in
\* the set when the call started (so the next call cannot return it again).
C25_GeneratedIsFreshAndAssigned ==
    \A d \in PossibleDraws :
        \A g \in {generateShortcode(d)} :
            /\ g.shortcode \in g.usedShortcodes
            /\ g.usedShortcodes = usedShortcodes \cup {g.shortcode}
            /\ d.attempts < maxAttempts =>
                /\ g.shortcode = d.last
                /\ g.shortcode \notin usedShortcodes
            /\ \A d2 \in Draws :
                (d2.attempts < maxAttempts /\ d2.last = g.shortcode)
                    => d2.last \in g.usedShortcodes

\* a generated code is in the assigned set and the loop can draw it again,
\* which makes it draw once more
C25_Witness ==
    /\ DrawCode(1) \in usedShortcodes
    /\ DrawCode(1) \in DOMAIN urls
    /\ \E d \in PossibleDraws : d.attempts = 2 /\ d.last = DrawCode(2)

\* C26: generateShortcode makes at most 100 draws; it returns the fallback
\* when the 100th draw collides with the assigned set, and only then: a code
\* of the 100th draw that does not collide is the code returned.
C26_FallbackOnlyAfterCollisions ==
    \A d \in PossibleDraws :
        \A g \in {generateShortcode(d)} :
            /\ d.attempts <= maxAttempts
            /\ (d.attempts = maxAttempts /\ d.last \in usedShortcodes)
                   => g.shortcode = FallbackShortcode(now)
            /\ d.last \notin usedShortcodes => g.shortcode = d.last

\* the part of C26 the code keeps: at most 100 draws, the fallback after 100
\* collisions, and no fallback before the limit
C26_TerminatesWithFallback ==
    \A d \in PossibleDraws :
        \A g \in {generateShortcode(d)} :
            /\ d.attempts <= maxAttempts
            /\ (d.attempts = maxAttempts /\ d.last \in usedShortcodes)
                   => g.shortcode = FallbackShortcode(now)
            /\ d.attempts < maxAttempts => g.shortcode = d.last

\* the storage key holds the serialization of the collections an operation
\* leaves
InSync(out) ==
    out.storage = <<Stringify(out.urls, out.clickData, out.usedShortcodes)>>

\* with working storage, a createShortURL or a getOriginalURL that succeeds
\* leaves the storage key in step with the collections, whatever the key
\* held before
SuccessfulCallsSave ==
    /\ \A call \in ValidCreateCalls :
        \A out \in {createShortURL(call[1], call[2], call[3], call[4], TRUE)} :
            out.ret.success => (out.saved /\ InSync(out))
    /\ \A s \in DOMAIN urls :
        \A out \in {getOriginalURL(s, TRUE)} :
            out.ret.success => (out.saved /\ InSync(out))

CreateErrors == {ErrInvalidUrl, ErrInvalidValidity, ErrInvalidShortcode, ErrShortcodeTaken}

ResolveErrors == {ErrNotFound, ErrExpired}

\* C28: a createShortURL that returns InvalidUrl, InvalidValidity,
\* InvalidShortcode or ShortcodeTaken, and a getOriginalURL that returns
\* NotFound or Expired, leave the mapping with every record's clickCount and
\* clicks, the click-history map, the assigned set and the persisted blob as
\* they were, whether or not the storage works; a call that returns without
\* success returns one of these errors.
C28_ErrorsDoNotMutate ==
    /\ \A call \in AllCreateCalls, ok \in BOOLEAN :
        \A out \in {createShortURL(call[1], call[2], call[3], call[4], ok)} :
            (~out.ret.success /\ ~out.ret.threw) =>
                /\ out.ret.error \in CreateErrors
                /\ NoMutation(out)
    /\ \A s \in Shortcodes \cup DOMAIN urls, ok \in BOOLEAN :
        \A out \in {getOriginalURL(s, ok)} :
            (~out.ret.success /\ ~out.ret.threw) =>
                /\ out.ret.error \in ResolveErrors
                /\ NoMutation(out)

\* a tracked record with a click has expired and a generated code is taken:
\* resolving the record fails with Expired, resolving another code with
\* NotFound, and a create with the taken code as custom shortcode fails
C28_Witness ==
    /\ \E s \in DOMAIN urls :
        /\ urls[s].clickCount > 0
        /\ getOriginalURL(s, TRUE).ret = Failure(ErrExpired)
    /\ \E s \in Shortcodes : getOriginalURL(s, TRUE).ret = Failure(ErrNotFound)
    /\ storage # <<>>
    /\ \E call \in AllCreateCalls : CreateResult(call) = Failure(ErrShortcodeTaken)

\* C29: in every reachable state the key set of clickData is the key set of
\* urls and, for every tracked shortcode s, clickData[s] is the sequence
\* urls[s].clicks; so the history getURLStats reports has clickCount events
\* and recordClick finds the clickData entry it pushes to.
C29_ClickStoresInStep ==
    /\ DOMAIN clickData = DOMAIN urls
    /\ \A s \in DOMAIN urls :
        /\ clickData[s] = urls[s].clicks
        /\ Len(getURLStats(s).ret[1].clicks) = getURLStats(s).ret[1].clickCount
        /\ \A out \in {recordClick(s, TRUE)} :
            /\ ~out.ret.threw
            /\ DOMAIN out.clickData = DOMAIN out.urls
            /\ out.clickData[s] = out.urls[s].clicks

\* after setLevel(L) the current level is the rank of L, and a message is
\* pushed on logs exactly when the rank of its level is at most that rank
FiltersAt(L) ==
    \A lg \in {setLevel(logger, L)} :
        /\ lg.currentLevel = logLevels[L]
        /\ \A M \in LevelNames :
            (log(lg, M, "message").logs # lg.logs) <=> (logLevels[M] <= logLevels[L])

\* C30: setLevel(L), for each of the names ERROR, WARN, INFO and DEBUG, sets
\* the current level to L, and afterwards a message is recorded in logs iff
\* the rank of its level is at most the rank of L; after setLevel('ERROR')
\* warn and info append nothing.
C30_SetLevelFilters == \A L \in LevelNames : FiltersAt(L)

\* the part of C30 the code keeps: the three names of non-zero rank
C30_NonZeroLevelsFilter == \A L \in LevelNames \ {"ERROR"} : FiltersAt(L)

====
